---- MODULE Spec2Model ----
(***************************************************************************)
(* Model of dynamic_programming/all_construct.py: all_construct(target,    *)
(* word_bank) enumerates every ordered sequence of words of word_bank      *)
(* whose concatenation is target, by dynamic programming over positions.   *)
(*                                                                         *)
(* A Python value is a record [isStr, s]: a str is [isStr |-> TRUE] with s *)
(* its sequence of characters; any other object is NonStr.  The word_bank  *)
(* argument is a record [none, items]: None, or a list of values.          *)
(* Iteration over a Python set of str has no defined order (it follows the *)
(* per-process string hashes), so the inner loop picks any pending word.   *)
(***************************************************************************)
EXTENDS Naturals, Sequences, FiniteSets

\* ---------------------------------------------------------------- bounds
Chars == {"a", "b"}
MaxTargetLen == 3
MaxBankLen == 2
MaxWordLen == 2

\* ------------------------------------------------------- value universe
RECURSIVE Strs(_)
Strs(n) ==
  IF n = 0 THEN {<<>>}
  ELSE LET shorter == Strs(n - 1)
       IN shorter \cup {Append(s, c) : s \in {x \in shorter : Len(x) = n - 1}, c \in Chars}

Str(s) == [isStr |-> TRUE, s |-> s]
NonStr == [isStr |-> FALSE, s |-> <<>>]

RECURSIVE Lists(_, _)
Lists(S, n) ==
  IF n = 0 THEN {<<>>}
  ELSE LET shorter == Lists(S, n - 1)
       IN shorter \cup {Append(l, e) : l \in {x \in shorter : Len(x) = n - 1}, e \in S}

TargetArgs == {NonStr} \cup {Str(s) : s \in Strs(MaxTargetLen)}
ElemArgs == {NonStr} \cup {Str(s) : s \in Strs(MaxWordLen)}
None == [none |-> TRUE, items |-> <<>>]
List(l) == [none |-> FALSE, items |-> l]
BankArgs == {None} \cup {List(l) : l \in Lists(ElemArgs, MaxBankLen)}

\* ------------------------------------------------------ Python helpers
Min(a, b) == IF a < b THEN a ELSE b
Max(a, b) == IF a < b THEN b ELSE a

\* s[i:j] for 0 <= i <= j: the slice is clamped to the string, it never raises.
Slice(s, i, j) == SubSeq(s, i + 1, Min(j, Len(s)))

\* list.reverse()
RECURSIVE Reverse(_)
Reverse(l) == IF l = <<>> THEN <<>> ELSE Append(Reverse(Tail(l)), Head(l))

\* "".join(words)
RECURSIVE Concat(_)
Concat(ws) == IF ws = <<>> THEN <<>> ELSE Head(ws) \o Concat(Tail(ws))

\* ------------------------------------------------------------- state
VARIABLES
  target,          \* argument target
  bank_arg,        \* argument word_bank as passed by the caller
  word_bank,       \* the name word_bank inside the function: the argument, then `word_bank or []`
  word_positions,  \* dict[int, set[str]]; <<>> until built
  max_word_length,
  dp_table,        \* list of n+1 lists of combinations; <<>> until built
  current_pos,
  pending,         \* words of the position set the inner loop has not yet visited
  result,          \* the returned list
  raised,          \* "none" or the exception type that left the function
  pc,
  second_call,     \* the caller has called again with the same arguments
  prev_result      \* what the first call returned

vars == <<target, bank_arg, word_bank, word_positions, max_word_length, dp_table,
          current_pos, pending, result, raised, pc, second_call, prev_result>>

target_length == Len(target.s)

Locals0 ==
  /\ word_bank = bank_arg
  /\ word_positions = <<>>
  /\ max_word_length = 0
  /\ dp_table = <<>>
  /\ current_pos = 0
  /\ pending = {}
  /\ result = <<>>
  /\ raised = "none"
  /\ pc = "validate"

Init ==
  /\ target \in TargetArgs
  /\ bank_arg \in BankArgs
  /\ Locals0
  /\ second_call = FALSE
  /\ prev_result = <<>>

\* ------------------------------------------------------- validation
\* Variant of OrEmpty: the `or []` is left out, None stays None.
OrEmptyDropped(b) == b

\* Line 45: word_bank or [] (None and the empty list are falsy).
OrEmpty(b) == IF b.none \/ b.items = <<>> THEN List(<<>>) ELSE b

\* Variant of ValidationOutcome: the check for empty words (lines 50-51) is missing.
ValidationOutcomeNoEmptyCheck(t, b) ==
  IF ~t.isStr THEN "TypeError"
  ELSE IF t.s = <<>> THEN "ValueError"
  ELSE LET wb == OrEmpty(b)
       IN IF wb.none THEN "TypeError"
          ELSE IF ~(\A i \in 1..Len(wb.items) : wb.items[i].isStr) THEN "TypeError"
          ELSE "none"

\* Variant of ValidationOutcome: one loop over word_bank that checks each
\* element's type and then its emptiness, so the first defective element decides.
ValidationOutcomePerElement(t, b) ==
  IF ~t.isStr THEN "TypeError"
  ELSE IF t.s = <<>> THEN "ValueError"
  ELSE LET wb == OrEmpty(b)
           bad == IF wb.none THEN {}
                  ELSE {i \in 1..Len(wb.items) : ~wb.items[i].isStr \/ wb.items[i].s = <<>>}
       IN IF wb.none THEN "TypeError"
          ELSE IF bad = {} THEN "none"
          ELSE LET first == CHOOSE i \in bad : \A j \in bad : i <= j
               IN IF ~wb.items[first].isStr THEN "TypeError" ELSE "ValueError"

\* Lines 40-51: the exception the validation raises, or "none".
ValidationOutcome(t, b) ==
  IF ~t.isStr THEN "TypeError"
  ELSE IF t.s = <<>> THEN "ValueError"
  ELSE LET wb == OrEmpty(b)
       IN \* iterating None raises TypeError ('NoneType' object is not iterable)
          IF wb.none THEN "TypeError"
          ELSE IF ~(\A i \in 1..Len(wb.items) : wb.items[i].isStr) THEN "TypeError"
          ELSE IF \E i \in 1..Len(wb.items) : wb.items[i].s = <<>> THEN "ValueError"
          ELSE "none"

Validate ==
  /\ pc = "validate"
  /\ LET outcome == ValidationOutcome(target, bank_arg)
     IN /\ raised' = outcome
        /\ pc' = IF outcome = "none" THEN "preprocess" ELSE "raised"
        \* line 45 runs once the two checks of target have passed
        /\ word_bank' = IF target.isStr /\ target.s # <<>> THEN OrEmpty(bank_arg) ELSE word_bank
  /\ UNCHANGED <<target, bank_arg, word_positions, max_word_length, dp_table,
                 current_pos, pending, result, second_call, prev_result>>

\* ------------------------------------------------------ preprocessing
\* Variant of MatchStarts: range(target_length - word_length), the last offset is lost.
MatchStartsShort(t, word) ==
  {i \in {j \in 0..Len(t) : j + Len(word) < Len(t)} : Slice(t, i, i + Len(word)) = word}

\* Variant of MatchStarts: range(target_length) and
\* word.startswith(target[i:i + word_length]), so a word may run past the target.
MatchStartsPrefix(t, word) ==
  {i \in {j \in 0..Len(t) : j < Len(t)} :
     LET piece == Slice(t, i, i + Len(word))
     IN piece = SubSeq(word, 1, Len(piece))}

\* Lines 61-62: the offsets i of range(target_length - word_length + 1) with
\* target[i:i + word_length] == word.
MatchStarts(t, word) ==
  {i \in {j \in 0..Len(t) : j + Len(word) <= Len(t)} : Slice(t, i, i + Len(word)) = word}

\* Lines 58-63: word_positions after the loop over word_bank.
WordPositions(t, wb) ==
  [i \in 0..Len(t) |-> {wb[k].s : k \in {j \in 1..Len(wb) : i \in MatchStarts(t, wb[j].s)}}]

RECURSIVE MaxLen(_)
MaxLen(wb) == IF wb = <<>> THEN 0 ELSE Max(Len(Head(wb).s), MaxLen(Tail(wb)))

Preprocess ==
  /\ pc = "preprocess"
  /\ word_positions' = WordPositions(target.s, word_bank.items)
  /\ max_word_length' = MaxLen(word_bank.items)
  /\ pc' = "init_table"
  /\ UNCHANGED <<target, bank_arg, word_bank, dp_table, current_pos, pending,
                 result, raised, second_call, prev_result>>

\* ------------------------------------------------------------ DP table
\* Lines 66-67.
InitialTable(n) == [k \in 0..n |-> IF k = 0 THEN << <<>> >> ELSE <<>>]

InitTable ==
  /\ pc = "init_table"
  /\ dp_table' = InitialTable(target_length)
  /\ current_pos' = 0
  /\ pc' = "scan"
  /\ UNCHANGED <<target, bank_arg, word_bank, word_positions, max_word_length,
                 pending, result, raised, second_call, prev_result>>

\* Lines 70-75: the head of the outer loop.
ForCurrentPos ==
  /\ pc = "scan"
  /\ IF current_pos >= target_length
       THEN /\ pc' = "reverse"
            /\ UNCHANGED <<current_pos, pending>>
       ELSE IF dp_table[current_pos] = <<>>
         THEN /\ current_pos' = current_pos + 1
              /\ UNCHANGED <<pc, pending>>
         ELSE /\ pending' = word_positions[current_pos]
              /\ pc' = "words"
              /\ UNCHANGED current_pos
  /\ UNCHANGED <<target, bank_arg, word_bank, word_positions, max_word_length,
                 dp_table, result, raised, second_call, prev_result>>

\* Variant of NewCombinations: [*combination, word], the word goes last.
NewCombinationsAppended(word, combinations) ==
  [j \in 1..Len(combinations) |-> combinations[j] \o <<word>>]

\* Lines 81-82: [word, *combination] for combination in dp_table[current_pos]
NewCombinations(word, combinations) ==
  [j \in 1..Len(combinations) |-> <<word>> \o combinations[j]]

\* Variant of EndPos: off by one.
EndPosOffByOne(pos, word) == (pos + Len(word)) - 1

\* Lines 76-77: end_pos = current_pos + word_length
EndPos(pos, word) == pos + Len(word)

\* Variant of Extended: the new combinations are put in front of slot end_pos.
ExtendedAtFront(table, pos, word) ==
  LET end_pos == pos + Len(word)
  IN IF end_pos \in DOMAIN table
       THEN [table EXCEPT ![end_pos] = [j \in 1..Len(table[pos]) |-> <<word>> \o table[pos][j]] \o @]
       ELSE table

\* Lines 81-82: dp_table after extending slot end_pos, or the table unchanged
\* when end_pos is no index of it (the subscript raises IndexError).
Extended(table, pos, word) ==
  LET end_pos == EndPos(pos, word)
  IN IF end_pos \in DOMAIN table
       THEN [table EXCEPT ![end_pos] = @ \o NewCombinations(word, table[pos])]
       ELSE table

\* Variant of ApplyWord: the inner loop breaks after the first word it visits.
ApplyWordBreak ==
  /\ pc = "words"
  /\ pending # {}
  /\ \E word \in pending :
       /\ pending' = {}
       /\ dp_table' = Extended(dp_table, current_pos, word)
       /\ IF EndPos(current_pos, word) \in DOMAIN dp_table
            THEN UNCHANGED <<pc, raised>>
            ELSE pc' = "raised" /\ raised' = "IndexError"
  /\ UNCHANGED <<target, bank_arg, word_bank, word_positions, max_word_length,
                 current_pos, result, second_call, prev_result>>

\* Lines 75-82: one iteration of the inner loop, over any word of the set that
\* is still to visit.
ApplyWord ==
  /\ pc = "words"
  /\ pending # {}
  /\ \E word \in pending :
       /\ pending' = pending \ {word}
       /\ dp_table' = Extended(dp_table, current_pos, word)
       /\ IF EndPos(current_pos, word) \in DOMAIN dp_table
            THEN UNCHANGED <<pc, raised>>
            ELSE pc' = "raised" /\ raised' = "IndexError"
  /\ UNCHANGED <<target, bank_arg, word_bank, word_positions, max_word_length,
                 current_pos, result, second_call, prev_result>>

\* The position set is exhausted: the outer loop moves on.
NextPos ==
  /\ pc = "words"
  /\ pending = {}
  /\ current_pos' = current_pos + 1
  /\ pc' = "scan"
  /\ UNCHANGED <<target, bank_arg, word_bank, word_positions, max_word_length,
                 dp_table, pending, result, raised, second_call, prev_result>>

\* Variant of Reversed: the reversal is forgotten.
ReversedForgotten(combinations) == combinations

\* Lines 85-87: every combination of slot n reversed in place.
Reversed(combinations) == [j \in 1..Len(combinations) |-> Reverse(combinations[j])]

\* Lines 85-89: result aliases dp_table[target_length].
ReverseAndReturn ==
  /\ pc = "reverse"
  /\ result' = Reversed(dp_table[target_length])
  /\ dp_table' = [dp_table EXCEPT ![target_length] = Reversed(@)]
  /\ pc' = "done"
  /\ UNCHANGED <<target, bank_arg, word_bank, word_positions, max_word_length,
                 current_pos, pending, raised, second_call, prev_result>>

\* The caller calls all_construct again with the same arguments.
CallAgain ==
  /\ pc = "done"
  /\ ~second_call
  /\ second_call' = TRUE
  /\ prev_result' = result
  /\ word_bank' = bank_arg
  /\ word_positions' = <<>>
  /\ max_word_length' = 0
  /\ dp_table' = <<>>
  /\ current_pos' = 0
  /\ pending' = {}
  /\ result' = <<>>
  /\ raised' = "none"
  /\ pc' = "validate"
  /\ UNCHANGED <<target, bank_arg>>

Next ==
  \/ Validate
  \/ Preprocess
  \/ InitTable
  \/ ForCurrentPos
  \/ ApplyWord
  \/ NextPos
  \/ ReverseAndReturn
  \/ CallAgain

Spec == Init /\ [][Next]_vars

\* ------------------------------------------------ vocabulary of the claims
ToSet(seq) == {seq[i] : i \in 1..Len(seq)}

\* The list the caller meant by its word_bank argument (None: no words).
BankItems == bank_arg.items

TargetOK == target.isStr /\ target.s # <<>>
HasNonStr == \E i \in 1..Len(BankItems) : ~BankItems[i].isStr
HasEmpty == \E i \in 1..Len(BankItems) : BankItems[i].isStr /\ BankItems[i].s = <<>>
ValidInput == TargetOK /\ ~HasNonStr /\ ~HasEmpty

BankWords == {BankItems[i].s : i \in 1..Len(BankItems)}

\* Every ordered sequence of words of the bank whose concatenation is the target
\* (words are non-empty, so such a sequence has at most len(target) words).
AllDecompositions ==
  {D \in Lists(BankWords, target_length) : Concat(D) = target.s}

Scanning == pc \in {"scan", "words"}
TableBuilt == pc \in {"scan", "words", "reverse", "done"}
\* ------------------------------------------------------------- claims

\* C1 (soundness): every decomposition of the returned list, concatenated in
\* the returned order, is exactly target, and each of its elements is a word
\* of word_bank.
C1_Soundness ==
  pc = "done" =>
    \A j \in 1..Len(result) :
      /\ Concat(result[j]) = target.s
      /\ \A i \in 1..Len(result[j]) : result[j][i] \in BankWords

\* A call that returned several decompositions, one of them of several
\* different words.
C1_Witness ==
  /\ pc = "done"
  /\ Len(result) >= 2
  /\ \E j \in 1..Len(result) : Len(result[j]) >= 2 /\ result[j][1] # result[j][2]

\* C2 (completeness without duplicates): the returned list holds every ordered
\* sequence of words of word_bank that concatenates to target, each exactly
\* once, also when word_bank names a word several times.
C2_CompleteNoDuplicates ==
  pc = "done" =>
    /\ ToSet(result) = AllDecompositions
    /\ Len(result) = Cardinality(AllDecompositions)

\* A call whose word_bank repeats a word that the returned decompositions use.
C2_Witness ==
  /\ pc = "done"
  /\ Len(BankItems) = 2
  /\ BankItems[1] = BankItems[2]
  /\ Len(result) >= 1
  /\ Len(result[1]) >= 2

\* The defects of the arguments, by the kind of error they call for.
TypeDefect == ~target.isStr \/ HasNonStr
ValueDefect == (target.isStr /\ target.s = <<>>) \/ HasEmpty

\* C3 (validation yields a typed error, never a result): with a defective
\* argument the call ends in TypeError or ValueError, raised while neither
\* word_positions nor dp_table exists and nothing is returned; a TypeError
\* answers a non-string (target or element), a ValueError an empty string
\* (target or element), and defects of one kind only raise that kind.
C3_ValidationError ==
  pc # "validate" =>
    /\ (TypeDefect \/ ValueDefect) =>
         /\ pc = "raised"
         /\ raised \in {"TypeError", "ValueError"}
         /\ word_positions = <<>>
         /\ dp_table = <<>>
         /\ result = <<>>
    /\ raised = "TypeError" => TypeDefect
    /\ raised = "ValueError" => ValueDefect
    /\ (TypeDefect /\ ~ValueDefect) => raised = "TypeError"
    /\ (ValueDefect /\ ~TypeDefect) => raised = "ValueError"

\* A good target with an empty string as the last word of the bank: ValueError.
C3_Witness ==
  /\ pc = "raised"
  /\ TargetOK
  /\ Len(BankItems) = 2
  /\ BankItems[1].isStr /\ BankItems[1].s # <<>>
  /\ BankItems[2] = Str(<<>>)
  /\ raised = "ValueError"

\* C4 (unconstructible targets): a valid call for which no sequence of words
\* of word_bank concatenates to target (word_bank may be empty or None) raises
\* nothing and returns the empty list.  Stated by contraposition: a valid call
\* that raised, or returned a non-empty list, has a decomposition.
C4_UnconstructibleEmpty ==
  LET emptyOrRunning == /\ raised = "none"
                        /\ pc # "raised"
                        /\ pc = "done" => result = <<>>
  IN (~emptyOrRunning /\ ValidInput) => AllDecompositions # {}

\* A call with word_bank None that returned.
C4_Witness ==
  /\ pc = "done"
  /\ bank_arg = None
  /\ result = <<>>

\* C10 (validation precedence): a non-string target raises TypeError and an
\* empty target ValueError whatever word_bank holds; with a good target, a
\* non-string element raises TypeError wherever it stands, also after an
\* empty string; an empty string raises ValueError only when every element
\* is a string.
C10_Precedence ==
  pc # "validate" =>
    /\ ~target.isStr => raised = "TypeError"
    /\ (target.isStr /\ target.s = <<>>) => raised = "ValueError"
    /\ (TargetOK /\ HasNonStr) => raised = "TypeError"
    /\ (TargetOK /\ ~HasNonStr /\ HasEmpty) => raised = "ValueError"

\* The empty string stands before the non-string element, and TypeError wins.
C10_Witness ==
  /\ pc = "raised"
  /\ TargetOK
  /\ Len(BankItems) = 2
  /\ BankItems[1] = Str(<<>>)
  /\ BankItems[2] = NonStr
  /\ raised = "TypeError"

\* C5 (idempotence up to order): a second call with the same target and
\* word_bank returns the same set of decompositions as the first, whatever
\* order either call visited the words of a position set in.
C5_SameSetTwice ==
  (second_call /\ pc = "done") => ToSet(result) = ToSet(prev_result)

\* Both calls returned, and some position had two matching words to order.
C5_Witness ==
  /\ second_call
  /\ pc = "done"
  /\ Len(prev_result) >= 2
  /\ \E i \in DOMAIN word_positions : Cardinality(word_positions[i]) >= 2

\* Index of the first occurrence of word w in the local word_bank.
FirstIndex(w) ==
  CHOOSE k \in 1..Len(word_bank.items) :
    /\ word_bank.items[k].s = w
    /\ \A j \in 1..(k - 1) : word_bank.items[j].s # w

\* C6 as claimed: at each position the matching words are applied in the scan
\* order of word_bank, i.e. the word the inner loop applies stands before
\* every word it has still to apply.
C6_AppliedInBankOrder ==
  [][(pc = "words" /\ pending' # pending) =>
       \A x \in pending \ pending' : \A w \in pending' : FirstIndex(x) < FirstIndex(w)]_vars

\* The decompositions of target[0:e] in the order the code lists them: by
\* increasing start offset p of the last word, and for one p in the order of
\* the decompositions of target[0:p].
RECURSIVE OrderedUpTo(_)
RECURSIVE OrderedFrom(_, _)
OrderedUpTo(e) == IF e = 0 THEN << <<>> >> ELSE OrderedFrom(0, e)
OrderedFrom(p, e) ==
  IF p >= e THEN <<>>
  ELSE LET last == Slice(target.s, p, e)
           before == OrderedUpTo(p)
           here == IF last \in BankWords
                     THEN [j \in 1..Len(before) |-> Append(before[j], last)]
                     ELSE <<>>
       IN here \o OrderedFrom(p + 1, e)

\* C6 (amended): the returned list, order included, is a function of target
\* and of the set of words of word_bank, whatever order the words of a
\* position set are applied in: decompositions come by increasing start
\* offset of their last word, ties resolved the same way on what precedes it.
C6_OrderDetermined ==
  pc = "done" => result = OrderedUpTo(target_length)

\* A call that returned three decompositions or more.
C6_Witness ==
  /\ pc = "done"
  /\ Len(result) >= 3
  /\ \E i \in DOMAIN word_positions : Cardinality(word_positions[i]) >= 2

\* C7 (DP table invariant): throughout the position scan every combination
\* held in slot k, read in left-to-right order (it is stored last word
\* first), concatenates to target[0:k], a string of length k.
C7_TableInvariant ==
  Scanning =>
    \A k \in DOMAIN dp_table : \A j \in 1..Len(dp_table[k]) :
      LET spelled == Concat(Reverse(dp_table[k][j]))
      IN spelled = Slice(target.s, 0, k) /\ Len(spelled) = k

\* Mid-scan, a slot holds a combination of two different words.
C7_Witness ==
  /\ pc = "words"
  /\ \E k \in DOMAIN dp_table : \E j \in 1..Len(dp_table[k]) :
       Len(dp_table[k][j]) >= 2 /\ dp_table[k][j][1] # dp_table[k][j][2]

\* C8 (slot 0): from the initialisation of the table until the call returns,
\* slot 0 holds exactly one combination, the empty one.
C8_SlotZero ==
  TableBuilt => dp_table[0] = << <<>> >>

\* The scan is past position 0, where a one-character word matched.
C8_Witness ==
  /\ Scanning
  /\ current_pos >= 1
  /\ dp_table[1] # <<>>
  /\ dp_table[0] = << <<>> >>

\* C9 (forward-only, bounds-safe writes): a step of the inner loop at position
\* p changes exactly one slot end_pos with p < end_pos <= n; no slot at or
\* below a scanned position changes again before the call returns; and
\* nothing is raised once validation has passed.
C9_ForwardWrites ==
  [][/\ (pc = "words" /\ dp_table' # dp_table) =>
          /\ DOMAIN dp_table' = DOMAIN dp_table
          /\ \E e \in (current_pos + 1)..target_length :
               \A k \in DOMAIN dp_table : k # e => dp_table'[k] = dp_table[k]
     /\ pc \in {"scan", "words", "reverse"} =>
          \A k \in DOMAIN dp_table : k < current_pos => dp_table'[k] = dp_table[k]
     /\ pc \notin {"validate", "raised"} => (raised' = "none" /\ pc' # "raised")]_vars

\* Mid-scan at a later position, the last slot has been written.
C9_Witness ==
  /\ pc = "words"
  /\ current_pos >= 1
  /\ dp_table[target_length] # <<>>
  /\ \E i \in 1..Len(word_bank.items) : Len(word_bank.items[i].s) > 1
====
